---- MODULE Spec2Model ----
(***************************************************************************)
(* A model of the two variants of the file-tree lister:                    *)
(*   variant 1: src/create-file-tree.py                                    *)
(*   variant 2: src/file-tree-maker-v5.py                                  *)
(* File names, indents and output lines are sequences of one-character     *)
(* strings, so that startswith/endswith, the frame-sequence pattern,       *)
(* sorting and the two-space adjustment are computed on characters.        *)
(***************************************************************************)
EXTENDS Integers, Sequences, FiniteSets, TLC

VARIABLES
    variant,         \* which script runs: 1 or 2
    dirs,            \* file system: paths (below the root) that are directories
    files,           \* file system: paths (below the root) that are regular files
    badzip,          \* file system: paths of files whose content is no zip archive
    unreadable,      \* file system: directories without read permission
    outfiles,        \* file system: text files in the root, name -> content
    pdf,             \* file system: <<>> or <<content>> of the root's file_list.pdf
    list_all_files,  \* the module-level global: "None", "True" or "False"
    pc,              \* where run_script is: "prompt", "walk", "crashed"
    prompts,         \* number of run_script calls made (its recursion depth)
    stack,           \* the call stack of list_directory_as_tree, top first
    mode,            \* the list_all_files argument passed down the walk
    output_lines,    \* the accumulator of the current scan
    tags,            \* per output line: the directory that emitted it, and its kind
    choicePrompts,   \* history: how often the condensed-or-all question was asked
    lastCall,        \* history: the last file-rendering call that returned
    lastListing,     \* history: the outcome of the last os.listdir call
    written,         \* history: per finished scan, the file it wrote and the content
    envSteps,        \* number of file-system changes made behind the walk
    exc              \* the uncaught exception that ended the process, or "none"

vars == <<variant, dirs, files, badzip, unreadable, outfiles, pdf, list_all_files,
          pc, prompts, stack, mode, output_lines, tags, choicePrompts, lastCall,
          lastListing, written, envSteps, exc>>

---------------------------------------------------------------------------
(* Bounds of the model *)

\* the longest chain of run_script calls explored
MaxPrompts == 3
\* the largest number of files drawn for the flat root directory
MaxFiles == 2
\* the number of file-system changes that may happen behind a walk
MaxEnv == 1

---------------------------------------------------------------------------
(* Characters and strings *)

\* the characters that occur, in code point order
CodePoints ==
    << "\n", " ", "-", ".", "/",
       "0", "1", "2", "3", "4", "5", "6", "7", "8", "9", ":",
       "A", "B", "C", "D", "I", "P", "S", "X", "Y", "Z", "[", "]", "_",
       "a", "b", "c", "d", "e", "f", "g", "i", "k", "l", "m", "n", "o", "p",
       "q", "r", "s", "t", "u", "x", "z" >>

\* ord(c), up to the gaps between the characters that occur
OrdTable ==
    [c \in {CodePoints[i] : i \in 1..Len(CodePoints)} |->
        CHOOSE i \in 1..Len(CodePoints) : CodePoints[i] = c]

Ord(c) == OrdTable[c]

IsDigit(c) == c \in {"0", "1", "2", "3", "4", "5", "6", "7", "8", "9"}

\* \w of the pattern: letters, digits and the underscore
IsWord(c) ==
    \/ IsDigit(c)
    \/ c = "_"
    \/ c \in {"A", "B", "C", "D", "I", "P", "S", "X", "Y", "Z",
              "a", "b", "c", "d", "e", "f", "g", "i", "k", "l", "m", "n", "o",
              "p", "q", "r", "s", "t", "u", "x", "z"}

StartsWith(s, p) == Len(s) >= Len(p) /\ SubSeq(s, 1, Len(p)) = p

EndsWith(s, p) == Len(s) >= Len(p) /\ SubSeq(s, Len(s) - Len(p) + 1, Len(s)) = p

\* s[n:] of Python, n counted from 0
DropFirst(s, n) == SubSeq(s, n + 1, Len(s))

\* the order of Python's str comparison
RECURSIVE StrLess(_, _)
StrLess(s, t) ==
    IF s = <<>> THEN t # <<>>
    ELSE IF t = <<>> THEN FALSE
    ELSE IF Head(s) = Head(t) THEN StrLess(Tail(s), Tail(t))
    ELSE Ord(Head(s)) < Ord(Head(t))

\* sorted(...) of a collection of distinct names
RECURSIVE Sorted(_)
Sorted(S) ==
    IF S = {} THEN <<>>
    ELSE LET m == CHOOSE x \in S : \A y \in S \ {x} : StrLess(x, y)
         IN  <<m>> \o Sorted(S \ {m})

Range(s) == {s[i] : i \in 1..Len(s)}

RECURSIVE Flatten(_)
Flatten(ss) == IF ss = <<>> THEN <<>> ELSE Head(ss) \o Flatten(Tail(ss))

---------------------------------------------------------------------------
(* Names *)

TwoSpaces == <<" ", " ">>
DotZip == <<".", "z", "i", "p">>
Dot == <<".">>
DS_Store == <<".", "D", "S", "_", "S", "t", "o", "r", "e">>
FileListTxt == <<"f", "i", "l", "e", "_", "l", "i", "s", "t", ".", "t", "x", "t">>
FileListPdf == <<"f", "i", "l", "e", "_", "l", "i", "s", "t", ".", "p", "d", "f">>
FileListDash == <<"f", "i", "l", "e", "_", "l", "i", "s", "t", "-">>
DotTxt == <<".", "t", "x", "t">>
ImageSequenceDot ==
    <<"[", "i", "m", "a", "g", "e", " ", "s", "e", "q", "u", "e", "n", "c", "e", "]", ".">>
ZipContents ==
    <<" ", "[", "Z", "I", "P", " ", "C", "o", "n", "t", "e", "n", "t", "s", "]", ":">>
CorruptedZip ==
    <<" ", "[", "C", "o", "r", "r", "u", "p", "t", "e", "d", " ", "Z", "I", "P", "]">>

\* names of the entries of the scanned trees
N_X == <<"X">>
N_Y == <<"Y">>
N_Z == <<"Z">>
N_git == <<".", "g", "i", "t">>
N_config == <<"c", "o", "n", "f", "i", "g">>
N_A_txt == <<"A", ".", "t", "x", "t">>
N_f_txt == <<"f", ".", "t", "x", "t">>
N_a0001 == <<"a", ".", "0", "0", "0", "1", ".", "e", "x", "r">>
N_a0002 == <<"a", ".", "0", "0", "0", "2", ".", "e", "x", "r">>
N_b0001 == <<"b", ".", "0", "0", "0", "1", ".", "e", "x", "r">>
N_a001 == <<"a", ".", "0", "0", "1", ".", "e", "x", "r">>
N_a00012 == <<"a", ".", "0", "0", "0", "1", "2", ".", "e", "x", "r">>
N_broken_zip == <<"b", "r", "o", "k", "e", "n", ".", "z", "i", "p">>
N_ok_zip == <<"o", "k", ".", "z", "i", "p">>
N_c0001_zip == <<"c", ".", "0", "0", "0", "1", ".", "z", "i", "p">>
N_c0002_zip == <<"c", ".", "0", "0", "0", "2", ".", "z", "i", "p">>
N_m_txt == <<"m", ".", "t", "x", "t">>
N_dot_k == <<".", "k">>

---------------------------------------------------------------------------
(* The file system: paths are sequences of names below the scanned root *)

Root == <<>>

\* os.path.join(root_path, entry)
Join(p, name) == Append(p, name)

Parent(p) == SubSeq(p, 1, Len(p) - 1)

Last(p) == p[Len(p)]

IsPrefix(d, p) == Len(d) <= Len(p) /\ SubSeq(p, 1, Len(d)) = d

\* os.path.isdir
isdir(p) == p = Root \/ p \in dirs

\* the names a successful os.listdir(p) returns, in no particular order
listdir(p) ==
    {Last(q) : q \in {r \in dirs \cup files : Parent(r) = p}}
        \cup (IF p = Root THEN DOMAIN outfiles ELSE {})
        \cup (IF p = Root /\ pdf # <<>> THEN {FileListPdf} ELSE {})

\* how os.listdir(p) ends: only a missing path raises FileNotFoundError
ListingOutcome(p) ==
    IF ~isdir(p) THEN "FileNotFoundError"
    ELSE IF p \in unreadable THEN "PermissionError"
    ELSE "ok"

\* os.path.exists of a name in the root directory
ExistsInRoot(name) == name \in listdir(Root)

\* the member names zip_file.infolist() gives for a valid archive
ZipMembers(p) == <<N_m_txt, N_dot_k>>

---------------------------------------------------------------------------
(* list_directory_as_tree *)

\* a skip test that passes over the hidden entries only
SkippedHiddenOnly(v, entry) == StartsWith(entry, Dot)

\* the entries the walk passes over
Skipped(v, entry) ==
    IF v = 1
    THEN StartsWith(entry, Dot) \/ entry = DS_Store \/ entry = FileListTxt
    ELSE StartsWith(entry, Dot) \/ entry = DS_Store \/ entry = FileListTxt
            \/ entry = FileListPdf

\* the kept entries of a sorted listing that are directories, in order
DirsOf(v, p, entries) ==
    LET keep(e) == ~Skipped(v, e) /\ isdir(Join(p, e))
    IN  SelectSeq(entries, keep)

\* the kept entries of a sorted listing that are not directories, in order
FilesOf(v, p, entries) ==
    LET keep(e) == ~Skipped(v, e) /\ ~isdir(Join(p, e))
    IN  SelectSeq(entries, keep)

\* an order of work that renders the files before it descends
ScheduleFilesFirst(ds) ==
    << [k |-> "files", name |-> <<>>] >>
        \o [i \in 1..Len(ds) |-> [k |-> "dir", name |-> ds[i]]]

\* what a call does after the listing: every directory, then the files
Schedule(ds) ==
    [i \in 1..Len(ds) |-> [k |-> "dir", name |-> ds[i]]]
        \o << [k |-> "files", name |-> <<>>] >>

DirLine(indent, directory) == indent \o directory \o <<"/">>

---------------------------------------------------------------------------
(* format_image_sequences and the per-file renderers *)

NoMatch == [matched |-> FALSE, base |-> <<>>, frame |-> <<>>, ext |-> <<>>]

\* pattern.match(filename) for (.*?)(\d{4})\.(\w+)$ : the lazy group takes the
\* shortest prefix after which four digits, a dot and word characters end the name
Match(name) ==
    LET fits(b) ==
            /\ Len(name) >= b + 6
            /\ \A i \in 1..b : name[i] # "\n"
            /\ \A i \in (b + 1)..(b + 4) : IsDigit(name[i])
            /\ name[b + 5] = "."
            /\ \A i \in (b + 6)..Len(name) : IsWord(name[i])
        cands == {b \in 0..Len(name) : fits(b)}
    IN  IF cands = {} THEN NoMatch
        ELSE LET b == CHOOSE x \in cands : \A y \in cands : x <= y
             IN  [matched |-> TRUE,
                  base |-> SubSeq(name, 1, b),
                  frame |-> SubSeq(name, b + 1, b + 4),
                  ext |-> SubSeq(name, b + 6, Len(name))]

\* the dictionary key (base, ext) of a matching name
Key(name) == <<Match(name).base, Match(name).ext>>

\* the keys of frame_sequences in insertion order
RECURSIVE GroupKeys(_)
GroupKeys(fs) ==
    IF fs = <<>> THEN <<>>
    ELSE LET before == GroupKeys(SubSeq(fs, 1, Len(fs) - 1))
             f == fs[Len(fs)]
         IN  IF Match(f).matched /\ Key(f) \notin Range(before)
             THEN Append(before, Key(f))
             ELSE before

\* frame_sequences[key] of the second variant: the matching names, in order
Members(fs, key) ==
    LET in(f) == Match(f).matched /\ Key(f) = key
    IN  SelectSeq(fs, in)

\* other_files after the first loop
OtherFiles(fs) ==
    LET out(f) == ~Match(f).matched
    IN  SelectSeq(fs, out)

SequenceLine(indent, key) == indent \o key[1] \o ImageSequenceDot \o key[2]

\* a test that asks for three frames
CondensesFromThree(n) == n > 2

\* a test that condenses a single frame, as the first variant does
CondensesFromOne(n) == n >= 1

\* the second variant's test for condensing a group of n frames
Condenses(n) == n > 1

PlainLine(indent, filename) ==
    << [text |-> indent \o filename, kind |-> "file"] >>

\* a renderer that appends the header line before the archive is found invalid
ListFileOrZipHeaderFirst(filename, indent, root_path) ==
    IF EndsWith(filename, DotZip)
    THEN [raised |-> "none",
          lines |->
              << [text |-> indent \o filename \o ZipContents, kind |-> "ziphdr"] >>
              \o IF Join(root_path, filename) \in badzip
                 THEN << [text |-> indent \o filename \o CorruptedZip,
                          kind |-> "badzip"] >>
                 ELSE <<>>]
    ELSE [raised |-> "none", lines |-> PlainLine(indent, filename)]

\* list_file_or_zip of the second variant: the lines appended, and the exception
\* that leaves the function, if any
ListFileOrZip(filename, indent, root_path) ==
    IF EndsWith(filename, DotZip)
    THEN IF Join(root_path, filename) \notin files
         THEN [raised |-> "FileNotFoundError", lines |-> <<>>]
         ELSE IF Join(root_path, filename) \in badzip
         THEN [raised |-> "none",
               lines |-> << [text |-> indent \o filename \o CorruptedZip,
                             kind |-> "badzip"] >>]
         ELSE [raised |-> "none",
               lines |->
                   << [text |-> indent \o filename \o ZipContents, kind |-> "ziphdr"] >>
                   \o [i \in 1..Len(ZipMembers(Join(root_path, filename))) |->
                         [text |-> indent \o TwoSpaces
                                     \o ZipMembers(Join(root_path, filename))[i],
                          kind |-> "zipmem"]]]
    ELSE [raised |-> "none", lines |-> PlainLine(indent, filename)]

\* the per-file step of either variant
RenderFile(v, filename, indent, root_path) ==
    IF v = 1
    THEN [raised |-> "none", lines |-> PlainLine(indent, filename)]
    ELSE ListFileOrZip(filename, indent, root_path)

\* a loop over filenames that renders each; an exception ends it
RECURSIVE RenderEach(_, _, _, _)
RenderEach(v, fs, indent, root_path) ==
    IF fs = <<>> THEN [raised |-> "none", lines |-> <<>>]
    ELSE LET first == RenderFile(v, Head(fs), indent, root_path)
         IN  IF first.raised # "none" THEN first
             ELSE LET rest == RenderEach(v, Tail(fs), indent, root_path)
                  IN  [raised |-> rest.raised, lines |-> first.lines \o rest.lines]

list_all_files_func(v, fs, indent, root_path) == RenderEach(v, fs, indent, root_path)

SequenceLines(indent, keys) ==
    [i \in 1..Len(keys) |-> [text |-> SequenceLine(indent, keys[i]), kind |-> "seq"]]

\* format_image_sequences of the first variant: every group is condensed
FormatImageSequences1(fs, indent) ==
    LET other_files == OtherFiles(fs)
    IN  [raised |-> "none",
         lines |-> SequenceLines(indent, GroupKeys(fs))
                     \o Flatten([i \in 1..Len(other_files) |->
                                    PlainLine(indent, other_files[i])])]

\* format_image_sequences of the second variant
FormatImageSequences2(fs, indent, root_path) ==
    LET keys == GroupKeys(fs)
        big(k) == Condenses(Len(Members(fs, k)))
        small(k) == ~Condenses(Len(Members(fs, k)))
        singles == SelectSeq(keys, small)
        other_files ==
            OtherFiles(fs) \o Flatten([i \in 1..Len(singles) |-> Members(fs, singles[i])])
        rest == RenderEach(2, Sorted(Range(other_files)), indent, root_path)
    IN  [raised |-> rest.raised,
         lines |-> SequenceLines(indent, SelectSeq(keys, big)) \o rest.lines]

format_image_sequences(v, fs, indent, root_path) ==
    IF v = 1 THEN FormatImageSequences1(fs, indent)
    ELSE FormatImageSequences2(fs, indent, root_path)

\* lines 43-46 / 45-48: the file part of one directory
RenderFiles(v, listAll, fs, indent, root_path) ==
    IF listAll THEN list_all_files_func(v, fs, indent, root_path)
    ELSE format_image_sequences(v, fs, indent, root_path)

---------------------------------------------------------------------------
(* The output file *)

\* "\n".join(output_lines)
RECURSIVE JoinLines(_)
JoinLines(ls) ==
    IF ls = <<>> THEN <<>>
    ELSE IF Len(ls) = 1 THEN ls[1]
    ELSE ls[1] \o <<"\n">> \o JoinLines(Tail(ls))

\* f.readlines(): the lines of a text, each with its line end
RECURSIVE ReadLines(_)
ReadLines(t) ==
    IF t = <<>> THEN <<>>
    ELSE LET ends == {i \in 1..Len(t) : t[i] = "\n"}
         IN  IF ends = {} THEN <<t>>
             ELSE LET i == CHOOSE x \in ends : \A y \in ends : x <= y
                  IN  <<SubSeq(t, 1, i)>> \o ReadLines(SubSeq(t, i + 1, Len(t)))

\* an adjustment that drops two characters whatever they are
AdjustLineUnconditional(line) == DropFirst(line, 2)

\* line[2:] if line.startswith("  ") else line
AdjustLine(line) == IF StartsWith(line, TwoSpaces) THEN DropFirst(line, 2) ELSE line

\* adjust_indentation_in_file: the content the file holds afterwards
AdjustIndentation(text) ==
    LET lines == ReadLines(text)
        adjusted_lines == [i \in 1..Len(lines) |-> AdjustLine(lines[i])]
    IN  Flatten(adjusted_lines)

DigitChars == <<"0", "1", "2", "3", "4", "5", "6", "7", "8", "9">>

RECURSIVE Decimal(_)
Decimal(n) ==
    IF n < 10 THEN <<DigitChars[n + 1]>>
    ELSE Append(Decimal(n \div 10), DigitChars[(n % 10) + 1])

\* f"{counter:02d}"
Format02d(n) == IF n < 10 THEN <<"0">> \o Decimal(n) ELSE Decimal(n)

NumberedName(counter) == FileListDash \o Format02d(counter) \o DotTxt

\* a choice of output file that always takes the fixed name
get_fixed_output_file == FileListTxt

\* get_unique_output_file of the first variant: the loop ends at the first
\* counter whose name is free, which is at most two more than the names there are
get_unique_output_file ==
    IF ~ExistsInRoot(FileListTxt) THEN FileListTxt
    ELSE LET free == {c \in 2..(Cardinality(listdir(Root)) + 2) :
                          ~ExistsInRoot(NumberedName(c))}
         IN  NumberedName(CHOOSE c \in free : \A d \in free : c <= d)

\* get_output_file of the second variant
get_output_file == FileListTxt

OutputFile(v) == IF v = 1 THEN get_unique_output_file ELSE get_output_file

---------------------------------------------------------------------------
(* The trees that are scanned *)

\* the file names the flat tree's root draws from
FilePool ==
    {N_f_txt, N_a0001, N_a0002, N_b0001, N_a001, N_a00012,
     N_broken_zip, N_ok_zip, N_c0001_zip, N_c0002_zip, FileListPdf}

\* the zip-named files whose content is no archive
BadContent == {N_broken_zip, N_c0001_zip}

OldText == <<"o", "l", "d">>

\* a tree three levels deep, with hidden and reserved names at each level
DeepTree ==
    [dirs |-> {<<N_X>>, <<N_Y>>, <<N_git>>, <<N_X, N_Z>>},
     files |-> {<<N_A_txt>>, <<N_f_txt>>, <<N_git, N_config>>,
                <<N_X, N_a0001>>, <<N_X, N_a0002>>, <<N_X, FileListTxt>>,
                <<N_X, N_Z, N_broken_zip>>, <<N_X, N_Z, DS_Store>>,
                <<N_X, N_Z, FileListPdf>>,
                <<N_Y, N_ok_zip>>, <<N_Y, N_b0001>>},
     outfiles |-> <<>>]

\* a root directory holding the files S and nothing else
FlatTree(S) ==
    [dirs |-> {}, files |-> {<<n>> : n \in S}, outfiles |-> <<>>]

\* a root directory that holds output files of an earlier process
RescannedTree ==
    [dirs |-> {}, files |-> {<<N_f_txt>>},
     outfiles |-> (FileListTxt :> OldText) @@ (NumberedName(3) :> OldText)]

Trees ==
    {DeepTree, RescannedTree}
        \cup {FlatTree(S) : S \in {T \in SUBSET FilePool : Cardinality(T) <= MaxFiles}}

---------------------------------------------------------------------------
(* run_script and the walk *)

NoCall ==
    [made |-> FALSE, path |-> Root, files |-> <<>>, indent |-> <<>>,
     listAll |-> FALSE, lines |-> <<>>]

NoException == [type |-> "none", site |-> "none"]

Init ==
    /\ variant \in {1, 2}
    /\ \E t \in Trees :
          /\ dirs = t.dirs
          /\ files = t.files
          /\ outfiles = t.outfiles
          /\ badzip = {f \in t.files : Last(f) \in BadContent}
    /\ unreadable = {}
    /\ pdf = <<>>
    /\ list_all_files = "None"
    /\ pc = "prompt"
    /\ prompts = 0
    /\ stack = <<>>
    /\ mode = FALSE
    /\ output_lines = <<>>
    /\ tags = <<>>
    /\ choicePrompts = 0
    /\ lastCall = NoCall
    /\ lastListing = [path |-> Root, outcome |-> "none"]
    /\ written = <<>>
    /\ envSteps = 0
    /\ exc = NoException

\* a guard that asks the question at every scan
NeedsChoiceAlways(global) == TRUE

\* the test that guards the question about condensing
NeedsChoice(global) == global = "None"

\* what an answer to the question makes of the global
ChoiceValue(list_choice) == IF list_choice = "y" THEN "False" ELSE "True"

\* run_script: the path typed does not exist; the error is printed and
\* run_script calls itself
PromptMissing ==
    /\ pc = "prompt"
    /\ prompts < MaxPrompts
    /\ prompts' = prompts + 1
    /\ UNCHANGED <<variant, dirs, files, badzip, unreadable, outfiles, pdf,
                   list_all_files, pc, stack, mode, output_lines, tags,
                   choicePrompts, lastCall, lastListing, written, envSteps, exc>>

\* run_script: the path typed is the root; the question is asked if the global
\* is unset, and the walk is called with the global's value
PromptScan(list_choice) ==
    /\ pc = "prompt"
    /\ prompts < MaxPrompts
    /\ prompts' = prompts + 1
    /\ IF NeedsChoice(list_all_files)
       THEN /\ choicePrompts' = choicePrompts + 1
            /\ list_all_files' = ChoiceValue(list_choice)
       ELSE UNCHANGED <<choicePrompts, list_all_files>>
    /\ mode' = (list_all_files' = "True")
    /\ output_lines' = <<>>
    /\ tags' = <<>>
    /\ stack' = << [path |-> Root, indent |-> TwoSpaces, listed |-> FALSE,
                    todo |-> <<>>, files |-> <<>>] >>
    /\ pc' = "walk"
    /\ UNCHANGED <<variant, dirs, files, badzip, unreadable, outfiles, pdf,
                   lastCall, lastListing, written, envSteps, exc>>

Top == Head(stack)

\* list_directory_as_tree, lines 13-33: the listing, and the split into
\* directories and files
ListDirectory ==
    /\ pc = "walk"
    /\ stack # <<>>
    /\ ~Top.listed
    /\ LET outcome == ListingOutcome(Top.path)
           entries == Sorted(listdir(Top.path))
       IN  /\ lastListing' = [path |-> Top.path, outcome |-> outcome]
           /\ CASE outcome = "FileNotFoundError" ->
                       /\ stack' = Tail(stack)
                       /\ UNCHANGED <<pc, exc>>
                [] outcome = "PermissionError" ->
                       /\ stack' = <<>>
                       /\ pc' = "crashed"
                       /\ exc' = [type |-> "PermissionError", site |-> "listdir"]
                [] OTHER ->
                       /\ stack' =
                             << [Top EXCEPT
                                   !.listed = TRUE,
                                   !.todo = Schedule(DirsOf(variant, Top.path, entries)),
                                   !.files = FilesOf(variant, Top.path, entries)] >>
                             \o Tail(stack)
                       /\ UNCHANGED <<pc, exc>>
    /\ UNCHANGED <<variant, dirs, files, badzip, unreadable, outfiles, pdf,
                   list_all_files, prompts, mode, output_lines, tags,
                   choicePrompts, lastCall, written, envSteps>>

\* lines 35-39 / 37-41: one turn of the loop over dirs, up to the recursive call
EnterDirectory ==
    /\ pc = "walk"
    /\ stack # <<>>
    /\ Top.listed
    /\ Top.todo # <<>>
    /\ Head(Top.todo).k = "dir"
    /\ output_lines' = Append(output_lines, DirLine(Top.indent, Head(Top.todo).name))
    /\ tags' = Append(tags, [owner |-> Top.path, kind |-> "dir"])
    /\ stack' =
          << [path |-> Join(Top.path, Head(Top.todo).name),
              indent |-> Top.indent \o TwoSpaces,
              listed |-> FALSE, todo |-> <<>>, files |-> <<>>],
             [Top EXCEPT !.todo = Tail(Top.todo)] >>
          \o Tail(stack)
    /\ UNCHANGED <<variant, dirs, files, badzip, unreadable, outfiles, pdf,
                   list_all_files, pc, prompts, mode, choicePrompts, lastCall,
                   lastListing, written, envSteps, exc>>

\* lines 43-46 / 45-48: the files of the directory are rendered
RenderDirectoryFiles ==
    /\ pc = "walk"
    /\ stack # <<>>
    /\ Top.listed
    /\ Top.todo # <<>>
    /\ Head(Top.todo).k = "files"
    /\ LET r == RenderFiles(variant, mode, Top.files, Top.indent, Top.path)
       IN  /\ output_lines' =
                 output_lines \o [i \in 1..Len(r.lines) |-> r.lines[i].text]
           /\ tags' =
                 tags \o [i \in 1..Len(r.lines) |->
                            [owner |-> Top.path, kind |-> r.lines[i].kind]]
           /\ lastCall' =
                 IF r.raised = "none"
                 THEN [made |-> TRUE, path |-> Top.path, files |-> Top.files,
                       indent |-> Top.indent, listAll |-> mode, lines |-> r.lines]
                 ELSE lastCall
           /\ IF r.raised = "none"
              THEN /\ stack' = << [Top EXCEPT !.todo = Tail(Top.todo)] >> \o Tail(stack)
                   /\ UNCHANGED <<pc, exc>>
              ELSE /\ stack' = <<>>
                   /\ pc' = "crashed"
                   /\ exc' = [type |-> r.raised, site |-> "zipfile"]
    /\ UNCHANGED <<variant, dirs, files, badzip, unreadable, outfiles, pdf,
                   list_all_files, prompts, mode, choicePrompts, lastListing,
                   written, envSteps>>

\* the call of list_directory_as_tree returns to its caller
ReturnFromDirectory ==
    /\ pc = "walk"
    /\ stack # <<>>
    /\ Top.listed
    /\ Top.todo = <<>>
    /\ stack' = Tail(stack)
    /\ UNCHANGED <<variant, dirs, files, badzip, unreadable, outfiles, pdf,
                   list_all_files, pc, prompts, mode, output_lines, tags,
                   choicePrompts, lastCall, lastListing, written, envSteps, exc>>

\* os.path.basename(os.path.normpath(root_directory))
RootName == <<"r", "o", "o", "t">>

\* run_script after the walk: the output file is chosen, written and adjusted,
\* the second variant writes the PDF, and run_script calls itself
WriteOutput ==
    /\ pc = "walk"
    /\ stack = <<>>
    /\ LET output_file == OutputFile(variant)
           content == AdjustIndentation(JoinLines(output_lines))
       IN  /\ outfiles' = (output_file :> content) @@ outfiles
           /\ written' = Append(written, [name |-> output_file, content |-> content])
    /\ pdf' = IF variant = 2
              THEN << [title |-> RootName, cells |-> output_lines] >>
              ELSE pdf
    /\ pc' = "prompt"
    /\ UNCHANGED <<variant, dirs, files, badzip, unreadable, list_all_files,
                   prompts, stack, mode, output_lines, tags, choicePrompts,
                   lastCall, lastListing, envSteps, exc>>

\* behind the walk, a directory and all below it is removed
Vanish(d) ==
    /\ pc = "walk"
    /\ envSteps < MaxEnv
    /\ d \in dirs
    /\ envSteps' = envSteps + 1
    /\ dirs' = {p \in dirs : ~IsPrefix(d, p)}
    /\ files' = {p \in files : ~IsPrefix(d, p)}
    /\ badzip' = {p \in badzip : ~IsPrefix(d, p)}
    /\ unreadable' = {p \in unreadable : ~IsPrefix(d, p)}
    /\ UNCHANGED <<variant, outfiles, pdf, list_all_files, pc, prompts, stack,
                   mode, output_lines, tags, choicePrompts, lastCall,
                   lastListing, written, exc>>

\* behind the walk, a directory loses its read permission
Revoke(d) ==
    /\ pc = "walk"
    /\ envSteps < MaxEnv
    /\ d \in dirs \ unreadable
    /\ envSteps' = envSteps + 1
    /\ unreadable' = unreadable \cup {d}
    /\ UNCHANGED <<variant, dirs, files, badzip, outfiles, pdf, list_all_files,
                   pc, prompts, stack, mode, output_lines, tags, choicePrompts,
                   lastCall, lastListing, written, exc>>

Next ==
    \/ PromptMissing
    \/ \E list_choice \in {"y", "n", "other"} : PromptScan(list_choice)
    \/ ListDirectory
    \/ EnterDirectory
    \/ RenderDirectoryFiles
    \/ ReturnFromDirectory
    \/ WriteOutput
    \/ \E d \in dirs : Vanish(d)
    \/ \E d \in dirs : Revoke(d)

Spec == Init /\ [][Next]_vars

---------------------------------------------------------------------------
(* Reading the output *)

FileKinds == {"file", "seq", "ziphdr", "zipmem", "badzip"}

\* the indent of the lines a directory emits: two spaces per level, from two
IndentLen(owner) == 2 * (Len(owner) + 1)

\* the text of line i after its directory's indent
Body(i) == DropFirst(output_lines[i], IndentLen(tags[i].owner))

\* the names of the entries of the scanned tree that line i shows: none for a
\* condensed line and for a line of an archive's member
NamedEntries(i) ==
    CASE tags[i].kind = "dir" -> {SubSeq(Body(i), 1, Len(Body(i)) - 1)}
      [] tags[i].kind = "file" -> {Body(i)}
      [] tags[i].kind = "ziphdr" ->
            {SubSeq(Body(i), 1, Len(Body(i)) - Len(ZipContents))}
      [] tags[i].kind = "badzip" ->
            {SubSeq(Body(i), 1, Len(Body(i)) - Len(CorruptedZip))}
      [] OTHER -> {}

Texts(lines) == [i \in 1..Len(lines) |-> lines[i].text]

\* how many of the lines have the text t
Count(lines, t) == Cardinality({i \in 1..Len(lines) : lines[i].text = t})

---------------------------------------------------------------------------
(* C1 *)

\* C1, as claimed: in both variants no output line names an entry whose name
\* begins with "." or is file_list.txt or file_list.pdf, and no line comes from
\* below a directory with such a name.
C1_NoHiddenOrReservedInEitherVariant ==
    \A i \in 1..Len(output_lines) :
        /\ \A n \in NamedEntries(i) :
              ~StartsWith(n, Dot) /\ n # FileListTxt /\ n # FileListPdf
        /\ \A k \in 1..Len(tags[i].owner) :
              /\ ~StartsWith(tags[i].owner[k], Dot)
              /\ tags[i].owner[k] # FileListTxt
              /\ tags[i].owner[k] # FileListPdf

\* the names each variant passes over, as the amended claim gives them
C1_Reserved(n) ==
    \/ StartsWith(n, Dot)
    \/ n = FileListTxt
    \/ variant = 2 /\ n = FileListPdf

\* C1, amended: no output line for an entry of the tree names an entry whose
\* name begins with "." or is file_list.txt, nor, in the second variant, one
\* named file_list.pdf, at any depth, and no line comes from below a directory
\* with such a name; the first variant lists file_list.pdf like any other entry.
C1_NoHiddenOrReservedPerVariant ==
    \A i \in 1..Len(output_lines) :
        /\ \A n \in NamedEntries(i) : ~C1_Reserved(n)
        /\ \A k \in 1..Len(tags[i].owner) : ~C1_Reserved(tags[i].owner[k])

\* the deep tree, with .DS_Store and file_list.pdf two levels down, a
\* file_list.txt one level down and .git in the root, has been walked to the end
\* and the lowest directory has emitted its lines
C1_Witness ==
    /\ pc = "prompt"
    /\ written # <<>>
    /\ {<<N_X, N_Z, DS_Store>>, <<N_X, N_Z, FileListPdf>>, <<N_X, FileListTxt>>,
        <<N_git, N_config>>} \subseteq files
    /\ \E i \in 1..Len(tags) : tags[i].owner = <<N_X, N_Z>>

---------------------------------------------------------------------------
(* C2 *)

\* C2: once a directory has emitted a line for one of its files, no later line
\* is a line for one of its subdirectories or comes from below it; every line
\* starts with its directory's indent, a subdirectory's line is the indent, the
\* name and "/", and the lines from below that subdirectory follow it without
\* a gap.
C2_DirectoriesBeforeFiles ==
    /\ Len(tags) = Len(output_lines)
    /\ \A i \in 1..Len(tags) :
          /\ Len(output_lines[i]) > IndentLen(tags[i].owner)
          /\ \A c \in 1..IndentLen(tags[i].owner) : output_lines[i][c] = " "
          /\ tags[i].kind = "dir" => output_lines[i][Len(output_lines[i])] = "/"
    /\ \A i, j \in 1..Len(tags) :
          (i < j /\ tags[i].kind \in FileKinds) =>
              /\ tags[j].owner = tags[i].owner => tags[j].kind \in FileKinds
              /\ ~(IsPrefix(tags[i].owner, tags[j].owner)
                     /\ tags[j].owner # tags[i].owner)
    /\ \A i, j \in 1..Len(tags) :
          (/\ i < j
           /\ tags[i].kind = "dir"
           /\ IsPrefix(Join(tags[i].owner, SubSeq(Body(i), 1, Len(Body(i)) - 1)),
                       tags[j].owner)) =>
              \A m \in (i + 1)..j :
                  IsPrefix(Join(tags[i].owner, SubSeq(Body(i), 1, Len(Body(i)) - 1)),
                           tags[m].owner)

\* the root, whose sorted listing is A.txt, X, Y, f.txt, has emitted X/ with
\* lines from below it, Y/, and then A.txt
C2_Witness ==
    /\ pc = "prompt"
    /\ written # <<>>
    /\ \E i, j, k, l \in 1..Len(output_lines) :
          /\ i < j /\ j < k /\ k < l
          /\ output_lines[i] = TwoSpaces \o N_X \o <<"/">>
          /\ tags[j].owner = <<N_X, N_Z>>
          /\ output_lines[k] = TwoSpaces \o N_Y \o <<"/">>
          /\ output_lines[l] = TwoSpaces \o N_A_txt

---------------------------------------------------------------------------
(* C3 *)

LineA0001 == <<"a", ".", "0", "0", "0", "1", ".", "e", "x", "r">>
LineA0002 == <<"a", ".", "0", "0", "0", "2", ".", "e", "x", "r">>
CondensedAWithoutDot ==
    <<"a", "[", "i", "m", "a", "g", "e", " ", "s", "e", "q", "u", "e", "n", "c", "e",
      "]", ".", "e", "x", "r">>
CondensedAWithDot ==
    <<"a", ".", "[", "i", "m", "a", "g", "e", " ", "s", "e", "q", "u", "e", "n", "c",
      "e", "]", ".", "e", "x", "r">>

\* the last condensed call rendered a directory holding only a.0001.exr and
\* a.0002.exr
C3_OnlyTheTwoFrames == lastCall.files = <<LineA0001, LineA0002>>

\* in condensed mode, each group of two or more frames has exactly one line,
\* the indent, the base, "[image sequence]." and the extension, and none of its
\* members has a line
C3_GroupsOfTwoCondensed ==
    (lastCall.made /\ ~lastCall.listAll) =>
        \A k \in Range(GroupKeys(lastCall.files)) :
            Len(Members(lastCall.files, k)) >= 2 =>
                /\ Count(lastCall.lines,
                         lastCall.indent \o k[1] \o ImageSequenceDot \o k[2]) = 1
                /\ \A m \in Range(Members(lastCall.files, k)) :
                       Count(lastCall.lines, lastCall.indent \o m) = 0

\* in list-all mode the directory of the two frames has one line per name
C3_ListAllOfTheTwoFrames ==
    (lastCall.made /\ lastCall.listAll /\ C3_OnlyTheTwoFrames) =>
        Texts(lastCall.lines)
            = <<lastCall.indent \o LineA0001, lastCall.indent \o LineA0002>>

\* C3, as claimed: groups of two or more are condensed to one line, the two
\* frames a.0001.exr and a.0002.exr to the line a[image sequence].exr, and
\* list-all mode lists the two names.
C3_TwoFramesGiveAImageSequence ==
    /\ C3_GroupsOfTwoCondensed
    /\ C3_ListAllOfTheTwoFrames
    /\ (lastCall.made /\ ~lastCall.listAll /\ C3_OnlyTheTwoFrames) =>
          Texts(lastCall.lines) = <<lastCall.indent \o CondensedAWithoutDot>>

\* C3, amended: as claimed, except that the one line for a.0001.exr and
\* a.0002.exr is a.[image sequence].exr: the base is all that precedes the four
\* digits and keeps its dot.
C3_TwoFramesGiveADotImageSequence ==
    /\ C3_GroupsOfTwoCondensed
    /\ C3_ListAllOfTheTwoFrames
    /\ (lastCall.made /\ ~lastCall.listAll /\ C3_OnlyTheTwoFrames) =>
          Texts(lastCall.lines) = <<lastCall.indent \o CondensedAWithDot>>

\* a condensed call has rendered the directory of the two frames
C3_Witness == lastCall.made /\ ~lastCall.listAll /\ C3_OnlyTheTwoFrames

---------------------------------------------------------------------------
(* C4 *)

\* the first variant condenses every group, of one frame or more
C4_FirstVariantCondensesAll ==
    (variant = 1 /\ lastCall.made /\ ~lastCall.listAll) =>
        \A k \in Range(GroupKeys(lastCall.files)) :
            /\ Count(lastCall.lines,
                     lastCall.indent \o k[1] \o ImageSequenceDot \o k[2]) = 1
            /\ \A m \in Range(Members(lastCall.files, k)) :
                   Count(lastCall.lines, lastCall.indent \o m) = 0

\* C4, as claimed: in the second variant the one member of a group of one is
\* emitted as the plain line of its name and has no condensed line; the first
\* variant condenses every group.
C4_SingleFrameIsPlainLine ==
    /\ C4_FirstVariantCondensesAll
    /\ (variant = 2 /\ lastCall.made /\ ~lastCall.listAll) =>
          \A k \in Range(GroupKeys(lastCall.files)) :
              Len(Members(lastCall.files, k)) = 1 =>
                  /\ Count(lastCall.lines,
                           lastCall.indent \o k[1] \o ImageSequenceDot \o k[2]) = 0
                  /\ Count(lastCall.lines,
                           lastCall.indent \o Members(lastCall.files, k)[1]) = 1

\* C4, amended: in the second variant the one member of a group of one goes
\* through the per-file renderer and has no condensed line: it is the plain line
\* of its name unless the name ends in ".zip", and then it is the archive's
\* header line or its "[Corrupted ZIP]" line; the first variant condenses every
\* group.
C4_SingleFrameIsRenderedPerFile ==
    /\ C4_FirstVariantCondensesAll
    /\ (variant = 2 /\ lastCall.made /\ ~lastCall.listAll) =>
          \A k \in Range(GroupKeys(lastCall.files)) :
              Len(Members(lastCall.files, k)) = 1 =>
                  LET m == Members(lastCall.files, k)[1]
                  IN  /\ Count(lastCall.lines,
                               lastCall.indent \o k[1] \o ImageSequenceDot \o k[2]) = 0
                      /\ IF EndsWith(m, DotZip)
                         THEN Count(lastCall.lines, lastCall.indent \o m \o ZipContents)
                                + Count(lastCall.lines,
                                        lastCall.indent \o m \o CorruptedZip) = 1
                         ELSE Count(lastCall.lines, lastCall.indent \o m) = 1

\* the second variant has rendered, condensed, a directory holding only
\* b.0001.exr
C4_Witness ==
    /\ variant = 2
    /\ lastCall.made
    /\ ~lastCall.listAll
    /\ lastCall.files = << <<"b", ".", "0", "0", "0", "1", ".", "e", "x", "r">> >>

---------------------------------------------------------------------------
(* C5 *)

\* the names the first variant tries, in order: file_list.txt, file_list-02.txt, ...
C5_NthName(i) == IF i = 1 THEN FileListTxt ELSE NumberedName(i)

\* C5: in the first variant a scan writes the first of file_list.txt,
\* file_list-02.txt, file_list-03.txt, ... that does not exist and changes no
\* output file that exists; after k scans the first k of these names exist, each
\* file a scan wrote holds what that scan wrote, and when all output files come
\* from these scans the i-th scan wrote the i-th name.
C5_ScansNeverOverwrite ==
    /\ [](variant = 1 =>
            /\ \A i \in 1..Len(written) :
                  /\ C5_NthName(i) \in DOMAIN outfiles
                  /\ written[i].name \in DOMAIN outfiles
                  /\ outfiles[written[i].name] = written[i].content
            /\ Cardinality(DOMAIN outfiles) = Len(written) =>
                  \A i \in 1..Len(written) : written[i].name = C5_NthName(i))
    /\ [][variant = 1 =>
            /\ \A n \in DOMAIN outfiles :
                  n \in DOMAIN outfiles' /\ outfiles'[n] = outfiles[n]
            /\ written' # written =>
                  \E i \in 1..(Cardinality(DOMAIN outfiles) + 1) :
                      /\ written'[Len(written')].name = C5_NthName(i)
                      /\ C5_NthName(i) \notin DOMAIN outfiles
                      /\ \A j \in 1..(i - 1) : C5_NthName(j) \in DOMAIN outfiles]_vars

\* the first variant has scanned a directory without output files twice, and
\* the second scan wrote file_list-02.txt
C5_Witness ==
    /\ variant = 1
    /\ Len(written) = 2
    /\ written[1].name = FileListTxt
    /\ written[2].name
          = <<"f", "i", "l", "e", "_", "l", "i", "s", "t", "-", "0", "2", ".", "t", "x", "t">>

---------------------------------------------------------------------------
(* C6 *)

\* C6, as claimed: a listing that fails because the directory is gone or
\* cannot be read never ends the run: the failure is caught where the listing is
\* made.
C6_ListingFailureIsCaught ==
    lastListing.outcome \in {"FileNotFoundError", "PermissionError"} =>
        /\ pc # "crashed"
        /\ exc.site # "listdir"

---------------------------------------------------------------------------
(* C7 *)

\* the files of the last call that reached the per-file renderer
C7_ReachesRenderer(f) ==
    \/ lastCall.listAll
    \/ ~Match(f).matched
    \/ Len(Members(lastCall.files, Key(f))) < 2

\* what the claim says of a corrupted archive f of the last call
C7_CorruptedLine(f) ==
    /\ Count(lastCall.lines, lastCall.indent \o f \o CorruptedZip) = 1
    /\ Count(lastCall.lines, lastCall.indent \o f \o ZipContents) = 0
    /\ \A i \in 1..Len(lastCall.lines) :
          (lastCall.lines[i].text = lastCall.indent \o f \o CorruptedZip
             /\ i < Len(lastCall.lines)) =>
              lastCall.lines[i + 1].kind # "zipmem"
    /\ \A g \in Range(lastCall.files) :
          (StrLess(f, g) /\ ~EndsWith(g, DotZip) /\ C7_ReachesRenderer(g)) =>
              \E i, j \in 1..Len(lastCall.lines) :
                  /\ i < j
                  /\ lastCall.lines[i].text = lastCall.indent \o f \o CorruptedZip
                  /\ lastCall.lines[j].text = lastCall.indent \o g
    /\ exc.type = "none" => pc # "crashed"

\* C7, as claimed: in the second variant every file named *.zip whose content
\* is no archive has exactly one line, its name and " [Corrupted ZIP]", no
\* header line and no member lines, and the files after it are still emitted.
C7_EveryCorruptedZipHasItsLine ==
    (variant = 2 /\ lastCall.made) =>
        \A f \in Range(lastCall.files) :
            (EndsWith(f, DotZip) /\ Join(lastCall.path, f) \in badzip) =>
                C7_CorruptedLine(f)

\* C7, amended: as claimed, for every such file that reaches the per-file
\* renderer, which is every file in list-all mode and, in condensed mode, every
\* file that is not one of two or more frames of a sequence; two or more frames
\* named *.zip are condensed to one line and never opened.
C7_RenderedCorruptedZipHasItsLine ==
    (variant = 2 /\ lastCall.made) =>
        \A f \in Range(lastCall.files) :
            (/\ EndsWith(f, DotZip)
             /\ Join(lastCall.path, f) \in badzip
             /\ C7_ReachesRenderer(f)) =>
                C7_CorruptedLine(f)

\* the second variant has rendered a directory holding broken.zip, which is no
\* archive, and f.txt
C7_Witness ==
    /\ variant = 2
    /\ lastCall.made
    /\ lastCall.files
          = << <<"b", "r", "o", "k", "e", "n", ".", "z", "i", "p">>,
               <<"f", ".", "t", "x", "t">> >>
    /\ <<N_broken_zip>> \in badzip

---------------------------------------------------------------------------
(* C8 *)

\* C8: the question about condensing is asked at most once in a process, and
\* only by a scan that starts while the global is unset; once set the global
\* never changes; every walk is called with the global's value; a prompt
\* answered with a missing path asks nothing and changes nothing.
C8_ChoiceAskedAtMostOnce ==
    [][/\ choicePrompts' <= 1
       /\ choicePrompts' # choicePrompts =>
             /\ list_all_files = "None"
             /\ list_all_files' # "None"
             /\ pc = "prompt" /\ pc' = "walk"
       /\ list_all_files # "None" =>
             list_all_files' = list_all_files /\ choicePrompts' = choicePrompts
       /\ (pc = "prompt" /\ pc' = "walk") =>
             /\ list_all_files' \in {"True", "False"}
             /\ mode' = (list_all_files' = "True")
       /\ (pc = "prompt" /\ pc' = "prompt") =>
             list_all_files' = list_all_files /\ choicePrompts' = choicePrompts
      ]_vars

\* a second scan walks, after a first scan that asked the question and a prompt
\* answered with a missing path
C8_Witness ==
    /\ choicePrompts = 1
    /\ Len(written) = 1
    /\ pc = "walk"
    /\ prompts = 3

---------------------------------------------------------------------------
(* C9 *)

\* the index of the last dot of a name, 0 if there is none
C9_LastDot(name) ==
    IF \E i \in 1..Len(name) : name[i] = "."
    THEN CHOOSE i \in 1..Len(name) :
            name[i] = "." /\ \A j \in (i + 1)..Len(name) : name[j] # "."
    ELSE 0

\* the number of digits that stand immediately before the last dot of a name
C9_DigitsBeforeExt(name) ==
    LET d == C9_LastDot(name)
        runs == {n \in 0..(d - 1) : \A i \in (d - n)..(d - 1) : IsDigit(name[i])}
    IN  IF d = 0 THEN 0 ELSE CHOOSE n \in runs : \A m \in runs : m <= n

\* C9, as claimed: in condensed mode a file whose name has fewer or more than
\* four digits before its extension is not grouped and is emitted as the plain
\* line of its name.
C9_OnlyExactlyFourDigitsAreFrames ==
    (lastCall.made /\ ~lastCall.listAll) =>
        \A f \in Range(lastCall.files) :
            (C9_DigitsBeforeExt(f) # 4 /\ ~EndsWith(f, DotZip)) =>
                /\ Count(lastCall.lines, lastCall.indent \o f) = 1
                /\ \A i \in 1..Len(lastCall.lines) :
                      LET t == lastCall.lines[i].text
                          tail == ImageSequenceDot \o DropFirst(f, C9_LastDot(f))
                      IN  ~(/\ lastCall.lines[i].kind = "seq"
                            /\ EndsWith(t, tail)
                            /\ StartsWith(lastCall.indent \o f,
                                          SubSeq(t, 1, Len(t) - Len(tail))))

---------------------------------------------------------------------------
(* C10 *)

\* the lines of the text a scan wrote before the adjustment
C10_Raw == ReadLines(JoinLines(output_lines))

\* the lines of the file the last scan wrote, as it is now
C10_Final == ReadLines(outfiles[written[Len(written)].name])

\* the lines of that file after the adjustment is applied to it once more
C10_Again == ReadLines(AdjustIndentation(outfiles[written[Len(written)].name]))

\* C10: the file a scan leaves has the lines of the output in their order, each
\* line that began with two spaces without its first two characters and every
\* other line as it was, so the root's entries start in the first column;
\* applied once more, the adjustment keeps the number and order of the lines and
\* leaves every line with fewer than two leading spaces as it is.
C10_AdjustmentStripsTwoSpaces ==
    (pc = "prompt" /\ written # <<>>) =>
        LET raw == C10_Raw
            final == C10_Final
            again == C10_Again
        IN  /\ Len(final) = Len(raw)
            /\ \A i \in 1..Len(raw) :
                  IF raw[i][1] = " " /\ raw[i][2] = " "
                  THEN /\ Len(final[i]) = Len(raw[i]) - 2
                       /\ \A c \in 1..Len(final[i]) : final[i][c] = raw[i][c + 2]
                  ELSE final[i] = raw[i]
            /\ \A i \in 1..Len(tags) :
                  (tags[i].owner = Root /\ tags[i].kind # "zipmem") => final[i][1] # " "
            /\ Len(again) = Len(final)
            /\ \A i \in 1..Len(final) :
                  ~(Len(final[i]) >= 2 /\ final[i][1] = " " /\ final[i][2] = " ")
                      => again[i] = final[i]

\* a scan of the deep tree has written its file: it holds a root entry in the
\* first column and a line of a lower level that still begins with two spaces
C10_Witness ==
    /\ pc = "prompt"
    /\ written # <<>>
    /\ LET final == C10_Final
       IN  \E i, j \in 1..Len(final) :
              /\ final[i][1] = "X"
              /\ final[j][1] = " " /\ final[j][2] = " "

====
